---------------------------- MODULE Spec2Model ----------------------------
(***************************************************************************)
(* Model of `fakit locate` (src/fakit/cmd/locate.go): the per-file         *)
(* producer / worker / receiver pipeline of locateCmd.Run, the matching    *)
(* done by each worker, and the rows the receiver writes.                  *)
(*                                                                         *)
(* Sequences and patterns are tuples of bases; offsets returned by the     *)
(* matcher are 0-based half-open pairs <<start, end>>, as in Go.           *)
(***************************************************************************)
EXTENDS Integers, Sequences, FiniteSets, TLC

\* ------------------------------------------------------------- bounds
MaxThreads == 2      \* --threads ranges over 1..MaxThreads
NumChunks  == 3      \* chunks the FASTA reader delivers per file
MaxSeqLen  == 3      \* longest record sequence of the matching specification
MaxPatLen  == 2      \* longest literal pattern of the matching specification

VARIABLES
    threads,            \* flag --threads (line 55), > 0 (line 58)
    pattern,            \* flag --pattern (line 63): the given patterns
    onlyPositiveStrand, \* flag --only-positive-strand (line 67)
    files,              \* per file, the chunks fastaReader.Ch will deliver
    fileIdx,            \* the file `for _, file := range files` is at (0: none yet)
    mainPC,             \* position of the main goroutine
    rd,                 \* chunks already received from fastaReader.Ch
    ch,                 \* buffered channel ch (line 129): queued LocationChunks
    chClosed,           \* close(ch) has run (line 260)
    tokens,             \* per file, len(tokens) of that file's channel (line 218)
    wg,                 \* counter of the WaitGroup (line 217)
    wpc,                \* per file and chunk (by place in the file), position of its worker
    wloc,               \* per file and chunk ID, `locations` of its worker
    rpc,                \* position of the receiver goroutine
    id,                 \* receiver's `id` (line 134)
    chunks,             \* receiver's map `chunks` (line 135)
    outfh,              \* everything written to outfh, in order
    fatal,              \* "none", or the panic or error that ended the process
    flushed,            \* history: chunk IDs written for the current file
    fileMark            \* history: Len(outfh) when each file was started

vars == << threads, pattern, onlyPositiveStrand, files, fileIdx, mainPC, rd,
           ch, chClosed, tokens, wg, wpc, wloc, rpc, id, chunks, outfh,
           fatal, flushed, fileMark >>

\* ------------------------------------------------------ sequence data
Bases == {"A", "C", "G", "T"}

Complement(b) ==
    CASE b = "A" -> "T"
      [] b = "T" -> "A"
      [] b = "C" -> "G"
      [] b = "G" -> "C"

\* Seq.RevCom(): the reversed sequence with every base complemented.
RevCom(s) == [i \in 1..Len(s) |-> Complement(s[Len(s) + 1 - i])]

\* All sequences over Bases of length lo..hi.
SeqsOfLen(lo, hi) == UNION {[1..n -> Bases] : n \in lo..hi}

\* The element of a one-element set.  Only({e : x \in {v}}) is e with x
\* naming the value of v: v is computed once, however often e uses it.
Only(S) == CHOOSE x \in S : TRUE

\* The concatenation of the sequences ss[1], ss[2], ...
Flatten(ss) ==
    Only({ LET upto[k \in 0..Len(v)] ==
                   IF k = 0 THEN << >> ELSE upto[k - 1] \o v[k]
           IN  upto[Len(v)] : v \in {ss} })

\* All orders in which the elements of S can be enumerated.
Perms(S) ==
    {p \in [1..Cardinality(S) -> S] : \A x \in S : \E i \in DOMAIN p : p[i] = x}

\* ------------------------------------------------------------ matcher
\* regexp.Compile of a literal pattern: the pattern itself.
Compile(p) == p

\* The pattern matches s at 0-based offset i.
MatchAt(re, s, i) ==
    /\ i + Len(re) <= Len(s)
    /\ \A j \in 1..Len(re) : s[i + j] = re[j]

\* One execution of the matcher from pos: the leftmost match at or after
\* pos, << >> when there is none.
DoExecute(re, s, pos) ==
    LET hits == {i \in pos..Len(s) : MatchAt(re, s, i)}
    IN  IF hits = {} THEN << >>
        ELSE LET i == CHOOSE x \in hits : \A y \in hits : x <= y
             IN  << i, i + Len(re) >>

\* The loop of FindAll*: successive non-overlapping matches; an empty match
\* right after the previous match is dropped, and after an empty match the
\* search moves on by one position.
AllMatches(re, s, from, prevEnd) ==
    LET loop[pos \in 0..(Len(s) + 1), prevMatchEnd \in -1..Len(s)] ==
            IF pos > Len(s) THEN << >>
            ELSE Only({
                 IF m = << >> THEN << >>
                 ELSE LET empty  == m[2] = pos
                          accept == ~(empty /\ m[1] = prevMatchEnd)
                          next   == IF empty
                                    THEN (IF pos < Len(s) THEN pos + 1
                                                          ELSE Len(s) + 1)
                                    ELSE m[2]
                      IN  (IF accept THEN << m >> ELSE << >>)
                              \o loop[next, m[2]]
                 : m \in {DoExecute(re, s, pos)} })
    IN  loop[from, prevEnd]

\* re.FindAllSubmatchIndex(b, -1): loc[0], loc[1] of every match.
FindAllSubmatchIndex(re, s) == AllMatches(re, s, 0, -1)

\* --------------------------------------------------------- the worker
\* tlocs[i] = []int{l - loc[1], l - loc[0]}  (0-based pair <<loc[0], loc[1]>>)
TranslateLocUntranslated(l, loc) == << loc[1], loc[2] >>

TranslateLoc(l, loc) == << l - loc[2], l - loc[1] >>

\* The body of `for pName, re := range regexps` for one pattern.
PatternLocations(record, pName, re, onlyPositive) ==
    Only({
        LET fwd   == IF Len(found) > 0
                     THEN << [Record |-> record, PatternName |-> pName,
                              Strand |-> 1, Locations |-> found] >>
                     ELSE << >>
            l     == Len(seqRP)
            tlocs == [i \in 1..Len(foundR) |-> TranslateLoc(l, foundR[i])]
            rev   == IF ~onlyPositive /\ Len(foundR) > 0
                     THEN << [Record |-> record, PatternName |-> pName,
                              Strand |-> -1, Locations |-> tlocs] >>
                     ELSE << >>
        IN  fwd \o rev
        : found  \in {FindAllSubmatchIndex(re, record.Seq)},
          seqRP  \in {RevCom(record.Seq)},
          foundR \in {FindAllSubmatchIndex(re, RevCom(record.Seq))} })

\* One record: the patterns in the order the map iteration yields them.
RecordLocations(record, order, res, onlyPositive) ==
    Flatten([k \in 1..Len(order) |->
                PatternLocations(record, order[k], res[order[k]], onlyPositive)])

\* One chunk: orders[r] is the map iteration order met at record r.
WorkerLocations(chunk, orders, res, onlyPositive) ==
    Flatten([r \in 1..Len(chunk.Data) |->
                RecordLocations(chunk.Data[r], orders[r], res, onlyPositive)])

\* ------------------------------------------------------- the receiver
Header == [header |-> "seqID patternName pattern strand start end matched"]

\* The matched text of a row.
MatchedTextForwardSlice(info, loc) ==
    SubSeq(info.Record.Seq, loc[1] + 1, loc[2])

MatchedText(info, loc) ==
    IF info.Strand = 1
    THEN SubSeq(info.Record.Seq, loc[1] + 1, loc[2])
    ELSE RevCom(SubSeq(info.Record.Seq, loc[1] + 1, loc[2]))

\* One formatted row.
Row(info, loc, pats) ==
    [ seqID       |-> info.Record.ID,
      patternName |-> info.PatternName,
      pattern     |-> pats[info.PatternName],
      strand      |-> info.Strand,
      start       |-> loc[1] + 1,
      end         |-> loc[2],
      matched     |-> MatchedText(info, loc) ]

\* The rows of one LocationChunk, in the order they are written.
ChunkRows(chunk, pats) ==
    Flatten([k \in 1..Len(chunk.Data) |->
                [i \in 1..Len(chunk.Data[k].Locations) |->
                    Row(chunk.Data[k], chunk.Data[k].Locations[i], pats)]])

MapDeleteNothing(m, k) == m

MapDelete(m, k) == [j \in DOMAIN m \ {k} |-> m[j]]

MapPut(m, k, v) == [j \in DOMAIN m \cup {k} |-> IF j = k THEN v ELSE m[j]]

EmptyMap == [j \in {} |-> 0]

\* The loop without its `id++`: the chunk keyed id is written and deleted,
\* and the next turn finds no such key.
CheckBufferedNoIncrement(i, cs, out, fl, pats) ==
    IF i \in DOMAIN cs
    THEN [id |-> i, chunks |-> MapDelete(cs, cs[i].ID),
          outfh |-> out \o ChunkRows(cs[i], pats),
          flushed |-> Append(fl, [ID |-> cs[i].ID, by |-> "buffered"])]
    ELSE [id |-> i, chunks |-> cs, outfh |-> out, flushed |-> fl]

\* `for true { if chunk, ok := chunks[id]; ok {...} else {break} }`
RECURSIVE CheckBuffered(_, _, _, _, _)
CheckBuffered(i, cs, out, fl, pats) ==
    IF i \in DOMAIN cs
    THEN CheckBuffered(i + 1, MapDelete(cs, cs[i].ID),
                       out \o ChunkRows(cs[i], pats),
                       Append(fl, [ID |-> cs[i].ID, by |-> "buffered"]), pats)
    ELSE [id |-> i, chunks |-> cs, outfh |-> out, flushed |-> fl]

\* sortLocationChunkMapID: the keys in ascending order.
RECURSIVE SortDescending(_)
SortDescending(S) ==
    IF S = {} THEN << >>
    ELSE LET hi == CHOOSE x \in S : \A y \in S : y <= x
         IN  << hi >> \o SortDescending(S \ {hi})

RECURSIVE SortAscending(_)
SortAscending(S) ==
    IF S = {} THEN << >>
    ELSE LET lo == CHOOSE x \in S : \A y \in S : x <= y
         IN  << lo >> \o SortAscending(S \ {lo})

sortLocationChunkMapIDDescending(cs) == SortDescending(DOMAIN cs)

sortLocationChunkMapID(cs) == SortAscending(DOMAIN cs)

\* The loop reading the same map entry at every turn.
WriteRemainingSameChunk(ids, cs, out, fl, pats) ==
    IF ids = << >> THEN [outfh |-> out, flushed |-> fl]
    ELSE [outfh   |-> out \o Flatten([k \in 1..Len(ids) |->
                                         ChunkRows(cs[Head(ids)], pats)]),
          flushed |-> fl \o [k \in 1..Len(ids) |->
                               [ID |-> cs[Head(ids)].ID, by |-> "remaining"]]]

\* `for _, id := range sortedIDs { chunk := chunks[id]; ... }`
RECURSIVE WriteRemaining(_, _, _, _, _)
WriteRemaining(ids, cs, out, fl, pats) ==
    IF ids = << >> THEN [outfh |-> out, flushed |-> fl]
    ELSE WriteRemaining(Tail(ids), cs, out \o ChunkRows(cs[Head(ids)], pats),
                        Append(fl, [ID |-> cs[Head(ids)].ID, by |-> "remaining"]),
                        pats)

\* ------------------------------------------------------------- inputs
regexps  == [p \in pattern |-> Compile(p)]
patterns == [p \in pattern |-> p]

ChunkIDs(f) == 0..(Len(files[f]) - 1)

\* The file of the pipeline specification: one record per chunk; the first
\* two records match both patterns, the later ones only the first pattern.
PipelineRecord(i) ==
    [ID |-> i, Seq |-> IF i < 2 THEN << "A", "G" >> ELSE << "A", "T" >>]

PipelineFile ==
    [i \in 1..NumChunks |->
        [ID |-> i - 1, Data |-> << PipelineRecord(i - 1) >>, Err |-> FALSE]]

\* A file of two chunks.
ShortFile == SubSeq(PipelineFile, 1, 2)

\* A file of one chunk more than the pipeline file.
LongFile ==
    [i \in 1..(NumChunks + 1) |->
        [ID |-> i - 1, Data |-> << PipelineRecord(i - 1) >>, Err |-> FALSE]]

\* The command lines of the pipeline specification: the file alone, or the
\* short file named twice.
PipelineFiles == { << PipelineFile >>, << ShortFile, ShortFile >> }

PipelinePatterns == { << "A" >>, << "C" >> }

\* The inputs of the matching specification: one record, and one literal
\* pattern alone or together with its reverse complement.
Pats == SeqsOfLen(0, MaxPatLen)

PatternSets == {{p} : p \in Pats} \cup {{p, RevCom(p)} : p \in Pats}

LocateFile(s) ==
    << [ID |-> 0, Data |-> << [ID |-> 0, Seq |-> s] >>, Err |-> FALSE] >>

InitCommon ==
    /\ fileIdx = 0
    /\ mainPC = "start"
    /\ rd = 0
    /\ ch = << >>
    /\ chClosed = FALSE
    /\ tokens = [f \in 1..Len(files) |-> 0]
    /\ wg = 0
    /\ wpc = [f \in 1..Len(files) |-> [i \in ChunkIDs(f) |-> "idle"]]
    /\ wloc = [f \in 1..Len(files) |-> [i \in ChunkIDs(f) |-> << >>]]
    /\ rpc = "none"
    /\ id = 0
    /\ chunks = EmptyMap
    /\ outfh = << Header >>
    /\ fatal = "none"
    /\ flushed = << >>
    /\ fileMark = << >>

Init ==
    /\ threads \in 1..MaxThreads
    /\ pattern = PipelinePatterns
    /\ onlyPositiveStrand = FALSE
    /\ files \in PipelineFiles
    /\ InitCommon

InitLocate ==
    /\ threads = 1
    /\ pattern \in PatternSets
    /\ onlyPositiveStrand \in BOOLEAN
    /\ files \in {<< LocateFile(s) >> : s \in SeqsOfLen(1, MaxSeqLen)}
    /\ InitCommon

\* A reader that breaks its contract: the last chunk of the file carries
\* the ID of the first.
DuplicateFile == [PipelineFile EXCEPT ![NumChunks].ID = 0]

InitDuplicate ==
    /\ threads \in 1..MaxThreads
    /\ pattern = PipelinePatterns
    /\ onlyPositiveStrand = FALSE
    /\ files = << DuplicateFile >>
    /\ InitCommon

\* The pipeline file with a read error on its k-th chunk.
ErrFile(k) == [PipelineFile EXCEPT ![k].Err = TRUE]

\* The command lines with a read error: in the only file, or in the second
\* file after the short file.
ErrFiles == { << ErrFile(k) >> : k \in 1..NumChunks }
                \cup { << ShortFile, ErrFile(2) >> }

InitErr ==
    /\ threads \in 1..MaxThreads
    /\ pattern = PipelinePatterns
    /\ onlyPositiveStrand = FALSE
    /\ files \in ErrFiles
    /\ InitCommon

\* The long file alone, with all the threads.
InitBacklog ==
    /\ threads = MaxThreads
    /\ pattern = PipelinePatterns
    /\ onlyPositiveStrand = FALSE
    /\ files = << LongFile >>
    /\ InitCommon

\* --------------------------------------------------- the main goroutine
\* Lines 127-220: the next file; a new ch and done, the receiver is
\* started, a new WaitGroup and tokens channel, and the reader of the file.
StartFile ==
    /\ fatal = "none"
    /\ mainPC = "start"
    /\ fileIdx' = fileIdx + 1
    /\ ch' = << >>
    /\ chClosed' = FALSE
    /\ rpc' = "range"
    /\ id' = 0
    /\ chunks' = EmptyMap
    /\ wg' = 0
    /\ tokens' = [tokens EXCEPT ![fileIdx + 1] = 0]
    /\ rd' = 0
    /\ flushed' = << >>
    /\ fileMark' = Append(fileMark, Len(outfh))
    /\ mainPC' = "range"
    /\ UNCHANGED << threads, pattern, onlyPositiveStrand, files, wpc, wloc,
                    outfh, fatal >>

\* checkError(err): a non-nil error ends the process.
checkError(err) == IF err THEN "fatal: read error" ELSE "none"

\* The loop without its checkError(chunk.Err).
ReadChunkUnchecked ==
    /\ fatal = "none"
    /\ mainPC = "range"
    /\ IF rd < Len(files[fileIdx])
       THEN /\ rd' = rd + 1
            /\ mainPC' = "acquire"
       ELSE /\ rd' = rd
            /\ mainPC' = "wait"
    /\ UNCHANGED << threads, pattern, onlyPositiveStrand, files, fileIdx, ch,
                    chClosed, tokens, wg, wpc, wloc, rpc, id, chunks, outfh,
                    fatal, flushed, fileMark >>

\* Lines 222-223: `for chunk := range fastaReader.Ch` and
\* checkError(chunk.Err).
ReadChunk ==
    /\ fatal = "none"
    /\ mainPC = "range"
    /\ IF rd < Len(files[fileIdx])
       THEN /\ rd' = rd + 1
            /\ fatal' = checkError(files[fileIdx][rd + 1].Err)
            /\ mainPC' = "acquire"
       ELSE /\ rd' = rd
            /\ fatal' = fatal
            /\ mainPC' = "wait"
    /\ UNCHANGED << threads, pattern, onlyPositiveStrand, files, fileIdx, ch,
                    chClosed, tokens, wg, wpc, wloc, rpc, id, chunks, outfh,
                    flushed, fileMark >>

\* `tokens <- 1` blocks while the channel holds `threads` tokens.
TokenFreeAlways(f) == TRUE

TokenFree(f) == tokens[f] < threads

\* Lines 224-227: tokens <- 1; wg.Add(1); go func(chunk) {...}(chunk).
Dispatch ==
    /\ fatal = "none"
    /\ mainPC = "acquire"
    /\ TokenFree(fileIdx)
    /\ tokens' = [tokens EXCEPT ![fileIdx] = @ + 1]
    /\ wg' = wg + 1
    /\ wpc' = [wpc EXCEPT ![fileIdx][rd - 1] = "match"]
    /\ mainPC' = "range"
    /\ UNCHANGED << threads, pattern, onlyPositiveStrand, files, fileIdx, rd,
                    ch, chClosed, wloc, rpc, id, chunks, outfh, fatal,
                    flushed, fileMark >>

\* wg.Wait() returns once the counter is zero.
WaitGroupDoneAlways == TRUE

WaitGroupDone == wg = 0

\* Line 259: wg.Wait().
Wait ==
    /\ fatal = "none"
    /\ mainPC = "wait"
    /\ WaitGroupDone
    /\ mainPC' = "close"
    /\ UNCHANGED << threads, pattern, onlyPositiveStrand, files, fileIdx, rd,
                    ch, chClosed, tokens, wg, wpc, wloc, rpc, id, chunks,
                    outfh, fatal, flushed, fileMark >>

\* The effect of close(ch) on the channel.
CloseNothing == FALSE

CloseChannel == TRUE

\* Line 260: close(ch).
Close ==
    /\ fatal = "none"
    /\ mainPC = "close"
    /\ chClosed' = CloseChannel
    /\ mainPC' = "waitDone"
    /\ UNCHANGED << threads, pattern, onlyPositiveStrand, files, fileIdx, rd,
                    ch, tokens, wg, wpc, wloc, rpc, id, chunks, outfh, fatal,
                    flushed, fileMark >>

\* ----------------------------------------------------------- a worker
\* The orders `range regexps` can take at the records of a chunk: one
\* enumeration of the map's keys per record.
RangeOrders(chunk) == [1..Len(chunk.Data) -> Perms(pattern)]

\* Lines 233-255: the matching of one chunk.  Every `range regexps` meets
\* the patterns in an order of the runtime's choosing.
WorkerMatch(f, i) ==
    /\ fatal = "none"
    /\ wpc[f][i] = "match"
    /\ \E orders \in RangeOrders(files[f][i + 1]) :
           wloc' = [wloc EXCEPT ![f][i] =
                       WorkerLocations(files[f][i + 1], orders, regexps,
                                       onlyPositiveStrand)]
    /\ wpc' = [wpc EXCEPT ![f][i] = "publish"]
    /\ UNCHANGED << threads, pattern, onlyPositiveStrand, files, fileIdx,
                    mainPC, rd, ch, chClosed, tokens, wg, rpc, id, chunks,
                    outfh, fatal, flushed, fileMark >>

\* A channel with room for every chunk of a file.
ChanCapLarge == threads + NumChunks

\* `ch := make(chan LocationChunk, threads)`.
ChanCap == threads

\* The worker returning without its send.
SendNothing(q, m) == q

\* `ch <- m` once the channel has room.
Send(q, m) == Append(q, m)

\* Line 256: ch <- LocationChunk{chunk.ID, locations}.  A send on a closed
\* channel panics; a send on a full channel blocks.
WorkerPublish(f, i) ==
    /\ fatal = "none"
    /\ wpc[f][i] = "publish"
    /\ IF f < fileIdx \/ chClosed
       THEN /\ fatal' = "panic: send on closed channel"
            /\ UNCHANGED << ch, wpc, wloc >>
       ELSE /\ Len(ch) < ChanCap
            /\ ch' = Send(ch, [ID |-> files[f][i + 1].ID, Data |-> wloc[f][i]])
            /\ wpc' = [wpc EXCEPT ![f][i] = "deferDone"]
            /\ wloc' = [wloc EXCEPT ![f][i] = << >>]
            /\ fatal' = fatal
    /\ UNCHANGED << threads, pattern, onlyPositiveStrand, files, fileIdx,
                    mainPC, rd, chClosed, tokens, wg, rpc, id, chunks, outfh,
                    flushed, fileMark >>

\* Line 229: the deferred wg.Done().
WorkerDone(f, i) ==
    /\ fatal = "none"
    /\ wpc[f][i] = "deferDone"
    /\ wg' = wg - 1
    /\ wpc' = [wpc EXCEPT ![f][i] = "deferToken"]
    /\ UNCHANGED << threads, pattern, onlyPositiveStrand, files, fileIdx,
                    mainPC, rd, ch, chClosed, tokens, wloc, rpc, id, chunks,
                    outfh, fatal, flushed, fileMark >>

\* Line 230: the deferred <-tokens, on the tokens channel of the worker's file.
WorkerRelease(f, i) ==
    /\ fatal = "none"
    /\ wpc[f][i] = "deferToken"
    /\ tokens[f] > 0
    /\ tokens' = [tokens EXCEPT ![f] = @ - 1]
    /\ wpc' = [wpc EXCEPT ![f][i] = "exited"]
    /\ UNCHANGED << threads, pattern, onlyPositiveStrand, files, fileIdx,
                    mainPC, rd, ch, chClosed, wg, wloc, rpc, id, chunks,
                    outfh, fatal, flushed, fileMark >>

\* ------------------------------------------------------- the receiver
\* Lines 136-156: a chunk is received and chunk.ID == id.
ReceiveInOrder ==
    /\ fatal = "none"
    /\ rpc = "range"
    /\ Len(ch) > 0
    /\ Head(ch).ID = id
    /\ ch' = Tail(ch)
    /\ outfh' = outfh \o ChunkRows(Head(ch), patterns)
    /\ id' = id + 1
    /\ flushed' = Append(flushed, [ID |-> Head(ch).ID, by |-> "in order"])
    /\ UNCHANGED << threads, pattern, onlyPositiveStrand, files, fileIdx,
                    mainPC, rd, chClosed, tokens, wg, wpc, wloc, rpc, chunks,
                    fatal, fileMark >>

\* Lines 157-185: a chunk is received and chunk.ID != id: the buffered
\* chunks from id on are written, then the chunk is buffered.
ReceiveOutOfOrder ==
    /\ fatal = "none"
    /\ rpc = "range"
    /\ Len(ch) > 0
    /\ Head(ch).ID # id
    /\ LET r == CheckBuffered(id, chunks, outfh, flushed, patterns)
       IN  /\ id' = r.id
           /\ outfh' = r.outfh
           /\ flushed' = r.flushed
           /\ chunks' = MapPut(r.chunks, Head(ch).ID, Head(ch))
    /\ ch' = Tail(ch)
    /\ UNCHANGED << threads, pattern, onlyPositiveStrand, files, fileIdx,
                    mainPC, rd, chClosed, tokens, wg, wpc, wloc, rpc, fatal,
                    fileMark >>

\* Lines 188-211: ch is closed and empty: the chunks still buffered are
\* written in ascending ID order.
ReceiveClosed ==
    /\ fatal = "none"
    /\ rpc = "range"
    /\ Len(ch) = 0
    /\ chClosed
    /\ LET r == IF Cardinality(DOMAIN chunks) > 0
                THEN WriteRemaining(sortLocationChunkMapID(chunks), chunks,
                                    outfh, flushed, patterns)
                ELSE [outfh |-> outfh, flushed |-> flushed]
       IN  /\ outfh' = r.outfh
           /\ flushed' = r.flushed
    /\ rpc' = "signal"
    /\ UNCHANGED << threads, pattern, onlyPositiveStrand, files, fileIdx,
                    mainPC, rd, ch, chClosed, tokens, wg, wpc, wloc, id,
                    chunks, fatal, fileMark >>

\* `<-done` returning whether or not the receiver has sent.
DoneSentAlways == TRUE

\* `<-done` returns when the receiver is at its `done <- 1`.
DoneSent == rpc = "signal"

\* Lines 213 and 261: `done <- 1` meets `<-done` (done is unbuffered); the
\* receiver ends and main goes on to the next file, or returns.
SignalDone ==
    /\ fatal = "none"
    /\ DoneSent
    /\ mainPC = "waitDone"
    /\ rpc' = "exited"
    /\ mainPC' = IF fileIdx < Len(files) THEN "start" ELSE "finished"
    /\ UNCHANGED << threads, pattern, onlyPositiveStrand, files, fileIdx, rd,
                    ch, chClosed, tokens, wg, wpc, wloc, id, chunks, outfh,
                    fatal, flushed, fileMark >>

\* ------------------------------------------------------ specifications
Next ==
    \/ StartFile
    \/ ReadChunk
    \/ Dispatch
    \/ Wait
    \/ Close
    \/ \E f \in 1..Len(files) : \E i \in ChunkIDs(f) : WorkerMatch(f, i)
    \/ \E f \in 1..Len(files) : \E i \in ChunkIDs(f) : WorkerPublish(f, i)
    \/ \E f \in 1..Len(files) : \E i \in ChunkIDs(f) : WorkerDone(f, i)
    \/ \E f \in 1..Len(files) : \E i \in ChunkIDs(f) : WorkerRelease(f, i)
    \/ ReceiveInOrder
    \/ ReceiveOutOfOrder
    \/ ReceiveClosed
    \/ SignalDone

Spec == Init /\ [][Next]_vars

\* Every goroutine that can run eventually runs.
FairSpec == Spec /\ WF_vars(Next)

\* The pipeline on the files with a read error.
SpecErr == InitErr /\ [][Next]_vars

\* The pipeline on the long file.
SpecBacklog == InitBacklog /\ [][Next]_vars

\* The pipeline fed by the reader that repeats an ID.
SpecDuplicate == InitDuplicate /\ [][Next]_vars

\* One chunk of one record: no chunk can arrive out of order.
NextLocate ==
    \/ StartFile
    \/ ReadChunk
    \/ Dispatch
    \/ Wait
    \/ Close
    \/ \E f \in 1..Len(files) : \E i \in ChunkIDs(f) : WorkerMatch(f, i)
    \/ \E f \in 1..Len(files) : \E i \in ChunkIDs(f) : WorkerPublish(f, i)
    \/ \E f \in 1..Len(files) : \E i \in ChunkIDs(f) : WorkerDone(f, i)
    \/ \E f \in 1..Len(files) : \E i \in ChunkIDs(f) : WorkerRelease(f, i)
    \/ ReceiveInOrder
    \/ ReceiveClosed
    \/ SignalDone

SpecLocate == InitLocate /\ [][NextLocate]_vars

\* ------------------------------------------------------------- claims
\* The chunk IDs written for the current file, in the order written.
FlushedIDs == [k \in 1..Len(flushed) |-> flushed[k].ID]

Occurrences(s, x) == Cardinality({k \in DOMAIN s : s[k] = x})

QueuedIDs == [k \in 1..Len(ch) |-> ch[k].ID]

\* The worker of chunk i of file f has sent its LocationChunk.
Published(f, i) == wpc[f][i] \in {"deferDone", "deferToken", "exited"}

\* The worker of chunk i of file f holds a token of that file's channel.
HoldsSlot(f, i) == wpc[f][i] \in {"match", "publish", "deferDone", "deferToken"}

\* Where the LocationChunk with ID i of the current file is: queued in ch,
\* buffered in chunks, already written.
Copies(i) ==
    Occurrences(QueuedIDs, i) + (IF i \in DOMAIN chunks THEN 1 ELSE 0)
        + Occurrences(FlushedIDs, i)

\* The rows written for file f (f already started).
RowsOfFile(f) ==
    SubSeq(outfh, fileMark[f] + 1,
           IF f < Len(fileMark) THEN fileMark[f + 1] ELSE Len(outfh))

\* The rows chunk c must contribute, whatever the order.
ExpectedRows(c) ==
    LET order == CHOOSE o \in Perms(DOMAIN regexps) : TRUE
        rows  == ChunkRows([ID |-> c.ID,
                            Data |-> WorkerLocations(c, [r \in 1..Len(c.Data) |-> order],
                                                     regexps, onlyPositiveStrand)],
                           patterns)
    IN  {rows[k] : k \in DOMAIN rows}

\* C1: for one input file of N chunks numbered 0..N-1, the chunk IDs written
\* to the output are at every moment a prefix of 0,1,...,N-1, and when the
\* receiver signals completion they are exactly 0,1,...,N-1.
C1_FlushedInOrder ==
    /\ \A k \in 1..Len(flushed) : flushed[k].ID = k - 1
    /\ rpc \in {"signal", "exited"} => Len(flushed) = Len(files[fileIdx])

\* C1 witness: a file was completed although chunks arrived out of order,
\* some written from the buffer on a later arrival and some at the end.
C1_Witness ==
    /\ rpc = "signal"
    /\ Len(files[fileIdx]) = NumChunks
    /\ \E k \in DOMAIN flushed : flushed[k].by = "buffered"
    /\ \E k \in DOMAIN flushed : flushed[k].by = "remaining"

\* C2: the rows written for the same chunk stream and the same pattern set
\* are the same in every run: when the same file is processed twice, the
\* rows written for it the second time equal those written the first time.
C2_SameRowsEveryRun ==
    (mainPC = "finished" /\ Len(files) = 2 /\ files[1] = files[2])
        => RowsOfFile(1) = RowsOfFile(2)

\* C3: no loss and no duplication.  Exactly the chunks pulled from the reader
\* have a worker; a published LocationChunk is in exactly one place (queued,
\* buffered or written) and an unpublished one nowhere; when the receiver is
\* through, every chunk ID has been written exactly once and the rows of the
\* file are exactly the rows of its records, each once.
C3_ExactlyOnce ==
    fileIdx > 0 =>
        /\ \A i \in ChunkIDs(fileIdx) :
            /\ (wpc[fileIdx][i] # "idle")
                 <=> (i < rd /\ ~(mainPC = "acquire" /\ i = rd - 1))
            /\ rpc = "range" => Copies(i) = (IF Published(fileIdx, i) THEN 1 ELSE 0)
            /\ rpc \in {"signal", "exited"} =>
                   Occurrences(FlushedIDs, i) = 1 /\ Occurrences(QueuedIDs, i) = 0
        /\ rpc \in {"signal", "exited"} =>
            LET rows == RowsOfFile(fileIdx)
                want == UNION {ExpectedRows(files[fileIdx][k]) : k \in DOMAIN files[fileIdx]}
            IN  /\ {rows[k] : k \in DOMAIN rows} = want
                /\ Len(rows) = Cardinality(want)

\* C3 witness: a file completed with chunks written by each of the three
\* places that write.
C3_Witness ==
    /\ rpc = "exited"
    /\ \E k \in DOMAIN flushed : flushed[k].by = "in order"
    /\ \E k \in DOMAIN flushed : flushed[k].by = "buffered"
    /\ \E k \in DOMAIN flushed : flushed[k].by = "remaining"

C5_CloseAfterPublish ==
    /\ fatal = "none"
    /\ chClosed =>
        /\ rd = Len(files[fileIdx])
        /\ mainPC \in {"waitDone", "start", "finished"}
        /\ \A i \in ChunkIDs(fileIdx) : Published(fileIdx, i)
        /\ rpc = "range" => \A i \in ChunkIDs(fileIdx) : Copies(i) = 1

\* C5 witness: the channel is closed while results are still queued in it.
C5_Witness ==
    /\ chClosed
    /\ rpc = "range"
    /\ Len(ch) = threads
    /\ threads = MaxThreads

\* The receiver of the current file has sent on done.
Signalled == rpc = "exited"

\* C6: under fair scheduling the run always comes to its end, and a receiver
\* signals completion only after the reader is exhausted, every worker has
\* called wg.Done and every chunk of the file has been written.
C6_Completes ==
    /\ <>(mainPC = "finished")
    /\ [](Signalled =>
            /\ rd = Len(files[fileIdx])
            /\ wg = 0
            /\ \A i \in ChunkIDs(fileIdx) :
                   wpc[fileIdx][i] \in {"deferToken", "exited"}
            /\ \A i \in ChunkIDs(fileIdx) : Occurrences(FlushedIDs, i) = 1)

\* C6 witness: the run has ended, with the largest thread count.
C6_Witness ==
    /\ mainPC = "finished"
    /\ threads = MaxThreads
    /\ Len(files[fileIdx]) = NumChunks
    /\ Len(flushed) = NumChunks

\* The record of the matching specification, and the rows written for it.
LocateSeq == files[1][1].Data[1].Seq

LocateRows == SubSeq(outfh, 2, Len(outfh))

\* The literal motif m lies in s at the 0-based half-open span [a, a + Len(m)).
Occurs(m, s, a) == a + Len(m) <= Len(s) /\ SubSeq(s, a + 1, a + Len(m)) = m

OccursOnce(m, s) == Cardinality({x \in 0..Len(s) : Occurs(m, s, x)}) = 1

HasRow(p, strand, start, end) ==
    \E k \in DOMAIN LocateRows :
        /\ LocateRows[k].patternName = p
        /\ LocateRows[k].strand = strand
        /\ LocateRows[k].start = start
        /\ LocateRows[k].end = end

\* C7 as stated: for a sequence of length L containing a literal motif at
\* forward offset [a,b) (and nowhere else), the forward search reports
\* start = a+1, end = b, and the reverse-complement search of the same
\* sequence for the reverse complement of the motif reports start = L-b+1,
\* end = L-a with strand -1.
C7_AsStated ==
    Len(flushed) = 1 =>
        \A m \in pattern : \A a \in 0..Len(LocateSeq) :
            (Len(m) > 0 /\ Occurs(m, LocateSeq, a) /\ OccursOnce(m, LocateSeq)) =>
                LET b == a + Len(m)
                    L == Len(LocateSeq)
                IN  /\ HasRow(m, 1, a + 1, b)
                    /\ (~onlyPositiveStrand /\ RevCom(m) \in pattern)
                           => HasRow(RevCom(m), -1, L - b + 1, L - a)

\* C7 amended: for a sequence containing a literal motif exactly once, at
\* forward offset [a,b), the forward search reports start = a+1, end = b, and
\* the reverse-complement search of the same sequence for the reverse
\* complement of the motif reports the same forward coordinates start = a+1,
\* end = b, with strand -1.
C7_StrandCoordinates ==
    Len(flushed) = 1 =>
        \A m \in pattern : \A a \in 0..Len(LocateSeq) :
            (Len(m) > 0 /\ Occurs(m, LocateSeq, a) /\ OccursOnce(m, LocateSeq)) =>
                LET b == a + Len(m)
                IN  /\ HasRow(m, 1, a + 1, b)
                    /\ (~onlyPositiveStrand /\ RevCom(m) \in pattern)
                           => HasRow(RevCom(m), -1, a + 1, b)

\* C7 witness: the rows are written for a motif that occurs once, off the
\* middle of the sequence, searched together with its reverse complement,
\* which differs from it.
C7_Witness ==
    /\ Len(flushed) = 1
    /\ ~onlyPositiveStrand
    /\ \E m \in pattern : \E a \in 0..Len(LocateSeq) :
           /\ Len(m) > 0
           /\ RevCom(m) # m
           /\ RevCom(m) \in pattern
           /\ Occurs(m, LocateSeq, a)
           /\ OccursOnce(m, LocateSeq)
           /\ a + (a + Len(m)) # Len(LocateSeq)
           /\ HasRow(RevCom(m), -1, a + 1, a + Len(m))

\* start, end and matched text of the rows of pattern p on a strand, in order.
SpansWritten(p, strand) ==
    LET sel == SelectSeq(LocateRows,
                         LAMBDA r : r.patternName = p /\ r.strand = strand)
    IN  [k \in 1..Len(sel) |->
            [start |-> sel[k].start, end |-> sel[k].end, matched |-> sel[k].matched]]

\* C8: for every match found at span [a,b) of the reverse complement of a
\* record of length L, the worker stores the span [L-b, L-a), and the matched
\* text of the row is the slice [a,b) of the reverse complement; for strand 1
\* the text is the forward slice at the stored span.  For a literal pattern
\* the text is the pattern itself.
C8_ReverseSpanAndText ==
    LET L  == Len(LocateSeq)
        rc == RevCom(LocateSeq)
    IN  /\ wpc[1][0] = "publish" =>
            \A k \in DOMAIN wloc[1][0] :
                LET info  == wloc[1][0][k]
                    found == FindAllSubmatchIndex(regexps[info.PatternName], rc)
                IN  info.Strand = -1 =>
                        info.Locations =
                            [j \in 1..Len(found) |->
                                << L - found[j][2], L - found[j][1] >>]
        /\ Len(flushed) = 1 =>
            \A p \in pattern :
                LET fwd == FindAllSubmatchIndex(regexps[p], LocateSeq)
                    rev == IF onlyPositiveStrand THEN << >>
                           ELSE FindAllSubmatchIndex(regexps[p], rc)
                IN  /\ SpansWritten(p, -1) =
                           [j \in 1..Len(rev) |->
                               [start   |-> L - rev[j][2] + 1,
                                end     |-> L - rev[j][1],
                                matched |-> SubSeq(rc, rev[j][1] + 1, rev[j][2])]]
                    /\ SpansWritten(p, 1) =
                           [j \in 1..Len(fwd) |->
                               [start   |-> fwd[j][1] + 1,
                                end     |-> fwd[j][2],
                                matched |-> SubSeq(LocateSeq, fwd[j][1] + 1, fwd[j][2])]]
        /\ \A k \in DOMAIN LocateRows : LocateRows[k].matched = LocateRows[k].patternName

\* C8 witness: a strand -1 row whose text differs from the forward slice at
\* its coordinates and whose span is not its own mirror image.
C8_Witness ==
    \E k \in DOMAIN LocateRows :
        /\ LocateRows[k].strand = -1
        /\ LocateRows[k].matched
               # SubSeq(LocateSeq, LocateRows[k].start, LocateRows[k].end)
        /\ LocateRows[k].start # Len(LocateSeq) - LocateRows[k].end + 1

\* C9: every row written has 1 <= start <= end <= L, L the length of the
\* record's sequence, zero-length matches included.
C9_CoordinatesInRange ==
    \A k \in DOMAIN LocateRows :
        /\ 1 <= LocateRows[k].start
        /\ LocateRows[k].start <= LocateRows[k].end
        /\ LocateRows[k].end <= Len(LocateSeq)

\* Position of pattern p in order o.
PosIn(o, p) == CHOOSE k \in DOMAIN o : o[k] = p

\* C10: within one record the matches follow one pattern order, the same for
\* every record of the run, and for each pattern strand 1 precedes strand -1.
C10_OnePatternOrder ==
    \E o \in Perms(pattern) :
        \A f \in 1..Len(fileMark) :
            LET rows == RowsOfFile(f)
            IN  \A k, l \in DOMAIN rows :
                    (k < l /\ rows[k].seqID = rows[l].seqID) =>
                        /\ PosIn(o, rows[k].patternName) <= PosIn(o, rows[l].patternName)
                        /\ rows[k].patternName = rows[l].patternName
                               => rows[k].strand >= rows[l].strand

\* A step of the receiver that takes a chunk from ch.
Arrival == rpc = "range" /\ Len(ch) > 0 /\ ch' = Tail(ch)

\* C11: a chunk that arrives with ID = id is written, id is incremented and
\* the buffered chunks that follow are written and removed in the same step:
\* after the handling of any arrival no chunk keyed id is left in the buffer.
C11_CascadeOnArrival ==
    [][Arrival => /\ id' \notin DOMAIN chunks'
                  /\ (Head(ch).ID = id => id' > id)]_vars

\* C12: a chunk that arrives with ID > id is only added to the buffer: the
\* step writes nothing and leaves id and the other buffered chunks alone.
C12_BufferOnly ==
    [][(Arrival /\ Head(ch).ID > id)
          => /\ id' = id
             /\ outfh' = outfh
             /\ flushed' = flushed
             /\ chunks' = MapPut(chunks, Head(ch).ID, Head(ch))]_vars

\* C13: every chunk in the buffer is keyed by its own ID and that ID is at
\* least id; every ID below id has been written, once; and while the
\* receiver ranges over ch the IDs written are exactly 0..id-1.
C13_PendingAtLeastNext ==
    /\ \A k \in DOMAIN chunks : k >= id /\ chunks[k].ID = k
    /\ \A i \in 0..(id - 1) : Occurrences(FlushedIDs, i) = 1
    /\ rpc = "range" => {FlushedIDs[k] : k \in DOMAIN FlushedIDs} = 0..(id - 1)

\* A chunk waits in the buffer after earlier chunks were written.
C13_Witness ==
    /\ rpc = "range"
    /\ id > 0
    /\ DOMAIN chunks # {}
    /\ \E k \in DOMAIN flushed : flushed[k].by = "buffered"

\* The IDs from lo to hi in ascending order.
Ascending(lo, hi) == [k \in 1..(hi - lo + 1) |-> lo + k - 1]

\* C14: when the receiver finds ch closed, the buffer holds exactly the
\* chunks id..N-1, and the drain writes them in ascending ID order, each
\* once, before done is signalled: from then on all of 0..N-1 are written.
C14_DrainAscending ==
    /\ [][(rpc = "range" /\ rpc' = "signal")
            => /\ DOMAIN chunks = id..(Len(files[fileIdx]) - 1)
               /\ FlushedIDs' = FlushedIDs
                                  \o Ascending(id, Len(files[fileIdx]) - 1)
               /\ \A k \in (Len(flushed) + 1)..Len(flushed') :
                      flushed'[k].by = "remaining"]_vars
    /\ [](rpc \in {"signal", "exited"}
            => FlushedIDs = Ascending(0, Len(files[fileIdx]) - 1))

\* The drain wrote two chunks.
C14_Witness ==
    /\ rpc = "signal"
    /\ Cardinality({k \in DOMAIN flushed : flushed[k].by = "remaining"}) >= 2

\* C15: the buffer never holds more chunks than there are threads, however
\* slow the worker of chunk id is while later chunks complete.
C15_PendingAtMostK == Cardinality(DOMAIN chunks) <= threads

Delivered(i) ==
    \/ \E k \in DOMAIN ch : ch[k].ID = i
    \/ i \in DOMAIN chunks
    \/ \E k \in DOMAIN flushed : flushed[k].ID = i

AtOrAfterError(f, i) == \E k \in 1..(i + 1) : files[f][k].Err

\* C18: a chunk delivered with a read error ends the run: the run is over
\* as soon as that chunk is read, that chunk and the chunks after it are
\* never dispatched and none of their rows is written, no later file is
\* started, and the rows written before stay (the output only grows).
C18_ReadErrorAborts ==
    /\ [](\A f \in 1..Len(files) : \A i \in ChunkIDs(f) :
              AtOrAfterError(f, i)
                  => /\ wpc[f][i] = "idle"
                     /\ fileIdx <= f
                     /\ f <= Len(fileMark) =>
                            \A k \in DOMAIN RowsOfFile(f) :
                                RowsOfFile(f)[k].seqID # files[f][i + 1].Data[1].ID
                     /\ (fileIdx = f /\ rd > i) => fatal = "fatal: read error")
    /\ [](fatal # "none" => /\ fatal = "fatal: read error"
                            /\ files[fileIdx][rd].Err)
    /\ [][/\ Len(outfh') >= Len(outfh)
          /\ SubSeq(outfh', 1, Len(outfh)) = outfh]_vars

\* The run ended on a read error after rows were written, with a worker
\* still matching.
C18_Witness ==
    /\ fatal = "fatal: read error"
    /\ Len(outfh) > 1
    /\ \E i \in ChunkIDs(fileIdx) : wpc[fileIdx][i] = "match"

\* The record IDs of the rows written for file f, in the order written.
SeqIDsOfFile(f) == [k \in DOMAIN RowsOfFile(f) |-> RowsOfFile(f)[k].seqID]

\* C19: rows are written by the receiver alone, one file at a time: a file
\* is started only when the receiver of the file before has written all its
\* chunks and ended and no worker of that file is still matching or
\* publishing; id and the buffer start again at 0 and empty; and the rows
\* of each finished file form one block holding all its records in order.
C19_OneWriterPerFile ==
    /\ [](\A f \in 1..Len(files) : \A i \in ChunkIDs(f) :
              /\ f < fileIdx => wpc[f][i] \in {"deferToken", "exited"}
              /\ f > fileIdx => wpc[f][i] = "idle")
    /\ [](\A f \in 1..Len(files) :
              f < fileIdx =>
                 /\ {SeqIDsOfFile(f)[k] : k \in DOMAIN SeqIDsOfFile(f)}
                        = ChunkIDs(f)
                 /\ \A k, l \in DOMAIN SeqIDsOfFile(f) :
                        k < l => SeqIDsOfFile(f)[k] <= SeqIDsOfFile(f)[l])
    /\ [][fileIdx' # fileIdx
            => /\ rpc \in {"none", "exited"}
               /\ ch = << >>
               /\ fileIdx > 0 =>
                     FlushedIDs = Ascending(0, Len(files[fileIdx]) - 1)
               /\ id' = 0
               /\ chunks' = EmptyMap]_vars
    /\ [][outfh' # outfh
            => /\ rpc = "range"
               /\ rpc' = "signal" \/ (Len(ch) > 0 /\ ch' = Tail(ch))]_vars

\* The receiver of the second file has written rows while a worker of the
\* first file has yet to give back its token.
C19_Witness ==
    /\ fileIdx = 2
    /\ rpc = "range"
    /\ Len(outfh) > fileMark[2]
    /\ \E i \in ChunkIDs(1) : wpc[1][i] = "deferToken"

\* The chunks of the current file handed to a worker whose results the
\* receiver has not yet taken from ch.
InFlight ==
    {i \in ChunkIDs(fileIdx) :
        /\ wpc[fileIdx][i] # "idle"
        /\ i \notin DOMAIN chunks
        /\ ~ \E k \in DOMAIN flushed : flushed[k].ID = i}

\* C20: a worker holds its token until ch has taken its results, and ch
\* holds at most `threads` results: the tokens in use are those of the
\* workers that have not given theirs back, and at most 2 * threads chunks
\* are dispatched and not yet received, however many chunks the file has.
C20_AtMostTwoKInFlight ==
    fileIdx > 0 =>
        /\ Len(ch) <= threads
        /\ tokens[fileIdx] = Cardinality({i \in ChunkIDs(fileIdx) :
                                             HoldsSlot(fileIdx, i)})
        /\ \A i \in ChunkIDs(fileIdx) :
               wpc[fileIdx][i] = "exited" => Delivered(i)
        /\ Cardinality(InFlight) <= 2 * threads

\* 2 * threads chunks are in flight and another chunk is yet to be
\* dispatched.
C20_Witness ==
    /\ fileIdx > 0
    /\ Cardinality(InFlight) = 2 * threads
    /\ \E i \in ChunkIDs(fileIdx) : wpc[fileIdx][i] = "idle"

=============================================================================
